---------------------------- MODULE Spec2Model ----------------------------
(***************************************************************************)
(* The expiring query cache of TeachingPracticesService                    *)
(* (src/src/teaching_practices.py) and the result fusion of                *)
(* HybridRAGSystem (src/src/hybrid_rag_system.py).                         *)
(*                                                                         *)
(* Python values are modelled as tagged records [t |-> type, v |-> code],  *)
(* so that repr() and == can tell an int from a str holding the same       *)
(* digits.  Time is counted in whole clock ticks.                          *)
(***************************************************************************)
EXTENDS Integers, Sequences, FiniteSets, TLC

(***************************************************************************)
(* Bounds of the model.                                                    *)
(***************************************************************************)
MaxTime  == 2      \* last clock tick
MaxTtl   == 2      \* largest cache_ttl drawn at construction
MaxSeed  == 1      \* largest per-process string-hash seed
HashBits == 3      \* width of hash() in the model (64 in CPython)
MaxGiven == 2      \* keyword arguments a caller passes to TeachingPracticeQuery
MaxFragments == 3  \* fragments in the two retrieved lists together
MaxTopK  == 2      \* largest top_k besides the default

VARIABLES
    cache,        \* self.cache: key -> {"data": ..., "timestamp": ...}
    cache_ttl,    \* self.cache_ttl
    now,          \* datetime.now()
    hash_seed,    \* the process's string-hash seed
    pc,           \* per call: "idle", "fetching" (suspended in gather), "done"
    call_query,   \* per call: the query argument
    call_key,     \* per call: the local cache_key
    result,       \* per call: the response returned
    outcome,      \* per call: "none", "hit", "computed", "fallback"
    seen,         \* history: what the call found under its key when it started
    began,        \* history: clock when the call started
    fetches,      \* history: how often the call invoked the compute step
    overlap,      \* history: the calls suspended in their fetches when it started
    stats_out,    \* what get_cache_stats returned last
    cleared,      \* history: the calls suspended in their fetches at a clear_cache
    key_kwargs,   \* key derivation: per query, the keyword arguments as written
    key_str,      \* key derivation: per query, str(sorted_items)
    key_out,      \* key derivation: per query, the cache key returned
    fuse_a,       \* fusion: llamaindex_results
    fuse_b,       \* fusion: langchain_results
    fuse_query,   \* fusion: the HybridQuery (fusion_method, weights, top_k)
    fuse_status,  \* fusion: "idle", "pending", "returned" or "raised"
    fuse_out,     \* fusion: the list _fuse_results returned
    fuse_self,    \* fusion: the outcome of a further call on (list A, list A)
    fuse_again,   \* fusion: the outcome of a repeated call, same arguments
    dedup_results,   \* deduplication on its own: the results argument
    dedup_threshold, \* deduplication on its own: similarity_threshold
    dedup_out        \* deduplication on its own: the outcome of the call

cacheVars == <<cache, cache_ttl, now, hash_seed, pc, call_query, call_key,
               result, outcome, seen, began, fetches, overlap, stats_out,
               cleared>>

keyVars == <<key_kwargs, key_str, key_out>>

fuseVars == <<fuse_a, fuse_b, fuse_query, fuse_status, fuse_out,
              fuse_self, fuse_again>>

dedupVars == <<dedup_results, dedup_threshold, dedup_out>>

(***************************************************************************)
(* Python values.                                                          *)
(***************************************************************************)
PyNone     == [t |-> "NoneType", v |-> 0]
PyInt(n)   == [t |-> "int", v |-> n]
PyStr(n)   == [t |-> "str", v |-> n]        \* the n-th string literal in use
PyEnum(cls, n) == [t |-> cls, v |-> n]      \* n-th member of enum cls
PyList(n)  == [t |-> "list", v |-> n]       \* the n-th keyword list in use

TypeNames == <<"NoneType", "int", "str", "list", "SubjectType", "GradeLevel",
               "TeachingObjective", "TeachingMethodType", "float">>

TypeCode(t) == CHOOSE i \in 1..Len(TypeNames) : TypeNames[i] = t

\* TeachingPracticeQuery: the dataclass fields in declaration order.
QueryFields == <<"subject", "grade", "objective", "method_type", "keywords",
                 "language", "limit">>

FieldSet == {QueryFields[i] : i \in 1..Len(QueryFields)}

\* The dataclass defaults.
FieldDefault(f) ==
    CASE f = "language" -> PyStr(1)        \* "zh-CN"
      [] f = "limit"    -> PyInt(10)
      [] OTHER          -> PyNone

\* TeachingPracticeQuery(**kwargs): kwargs is a sequence of <<name, value>>
\* in the order the caller wrote them; fields left out take their defaults.
TeachingPracticeQuery(kwargs) ==
    [f \in FieldSet |->
        IF \E i \in 1..Len(kwargs) : kwargs[i][1] = f
        THEN kwargs[CHOOSE i \in 1..Len(kwargs) : kwargs[i][1] = f][2]
        ELSE FieldDefault(f)]

\* dataclasses.asdict(query): name -> value, in declaration order.
asdict(q) == [i \in 1..Len(QueryFields) |-> <<QueryFields[i], q[QueryFields[i]]>>]

\* Position of a field name in lexicographic order of the names.
NameRank(f) ==
    CASE f = "grade"       -> 1
      [] f = "keywords"    -> 2
      [] f = "language"    -> 3
      [] f = "limit"       -> 4
      [] f = "method_type" -> 5
      [] f = "objective"   -> 6
      [] f = "subject"     -> 7

\* sorted(items): ascending by name (names are unique, values never compared).
RECURSIVE InsertSorted(_, _)
InsertSorted(item, s) ==
    IF s = <<>> THEN <<item>>
    ELSE IF NameRank(item[1]) < NameRank(Head(s)[1]) THEN <<item>> \o s
    ELSE <<Head(s)>> \o InsertSorted(item, Tail(s))

RECURSIVE sorted(_)
sorted(items) ==
    IF items = <<>> THEN <<>>
    ELSE InsertSorted(Head(items), sorted(Tail(items)))

\* repr() of a value, as a character code: the type decides the notation,
\* so 5 and '5' differ.
Repr(val) == TypeCode(val.t) * 100 + val.v

\* str(sorted_items): the printed (name, repr(value)) pairs, one code each.
str(items) == [i \in 1..Len(items) |-> NameRank(items[i][1]) * 1000 + Repr(items[i][2])]

HashSpace == 2 ^ HashBits

\* hash(s) of a string s of character codes: a seeded mixing, truncated to
\* the hash width; equal strings hash equally within one process.
RECURSIVE HashFrom(_, _)
HashFrom(h, s) ==
    IF s = <<>> THEN h
    ELSE HashFrom((h * 31 + Head(s)) % HashSpace, Tail(s))

hash(seed, s) == HashFrom(seed % HashSpace, s)

\* Variant: the limit is left out of the string the key is hashed from.
CanonStr_no_limit(q) ==
    str(sorted(SelectSeq(asdict(q), LAMBDA it : it[1] # "limit")))

\* The canonical string the key is hashed from.
CanonStr(q) == str(sorted(asdict(q)))

_generate_cache_key(seed, q) ==
    [prefix |-> "teaching_practices", h |-> hash(seed, CanonStr(q))]

(***************************************************************************)
(* The compute step: four fetches against the external content service.    *)
(***************************************************************************)
Categories == {"teaching_strategies", "classroom_activities",
               "assessment_methods", "classroom_management"}

\* What the content service delivers during one computation: per category,
\* how many of the topic lookups come back with a document that parses to an
\* item (0: library id unresolved, request failed, or nothing parsed).
ServiceDown    == [c \in Categories |-> 0]
ServiceUp      == [c \in Categories |-> 3]
ServiceScenarios == {ServiceDown, ServiceUp}

Truthy(val) == val # PyNone

Min(a, b) == IF a < b THEN a ELSE b
Max(a, b) == IF a > b THEN a ELSE b

Count(b) == IF b THEN 1 ELSE 0

\* Number of topics a fetch queries.
NTopics(cat, q) ==
    CASE cat = "teaching_strategies" ->
           LET n == Count(Truthy(q.subject)) + Count(Truthy(q.method_type))
                    + Count(Truthy(q.objective))
           IN  Min(IF n = 0 THEN 2 ELSE n, 3)
      [] cat = "classroom_activities" ->
           LET n == Count(Truthy(q.subject)) + Count(Truthy(q.grade))
           IN  Min(IF n = 0 THEN 2 ELSE n, 2)
      [] OTHER -> 3

\* The single item every _parse_* helper builds from a document.
ParsedItem(cat) ==
    CASE cat = "teaching_strategies"  -> "interactive_teaching"
      [] cat = "classroom_activities" -> "group_cooperation"
      [] cat = "assessment_methods"   -> "formative_assessment"
      [] cat = "classroom_management" -> "discipline_management"

\* _get_default_*: two built-in items per category.
DefaultItems(cat) ==
    CASE cat = "teaching_strategies"  -> <<"inquiry_learning", "differentiated_teaching">>
      [] cat = "classroom_activities" -> <<"mind_map", "role_play">>
      [] cat = "assessment_methods"   -> <<"portfolio", "peer_review">>
      [] cat = "classroom_management" -> <<"environment", "time_management">>

\* seq[:n] for an int n (a negative n counts from the end).
Slice(s, n) ==
    LET stop == IF n >= 0 THEN Min(n, Len(s)) ELSE Max(Len(s) + n, 0)
    IN  SubSeq(s, 1, stop)

\* A slice bound must be an int (or None); anything else is a TypeError.
Sliceable(val) == val.t \in {"int", "NoneType"}

SliceBy(s, val) == IF val.t = "int" THEN Slice(s, val.v) ELSE s

\* Variant: nothing is substituted when no document came back.
Gathered_no_defaults(cat, q, svc) ==
    [i \in 1..Min(svc[cat], NTopics(cat, q)) |-> ParsedItem(cat)]

\* The items a fetch gathered before slicing: one parsed item per delivered
\* document, or the defaults when nothing came back.
Gathered(cat, q, svc) ==
    LET n == Min(svc[cat], NTopics(cat, q))
    IN  IF n = 0 THEN DefaultItems(cat) ELSE [i \in 1..n |-> ParsedItem(cat)]

\* The bound a fetch slices its result by.
FetchBound(cat, q) ==
    IF cat = "classroom_management" THEN PyInt(5) ELSE q.limit

\* _fetch_*: the slice sits outside the try block, so it can raise.
FetchRaises(cat, q) == ~Sliceable(FetchBound(cat, q))

Fetch(cat, q, svc) == SliceBy(Gathered(cat, q, svc), FetchBound(cat, q))

\* asyncio.gather(*tasks) raises as soon as one fetch raises.
GatherRaises(q) == \E cat \in Categories : FetchRaises(cat, q)

AdditionalResources == <<"edtech_guide", "engagement_strategies",
                         "differentiation_handbook", "formative_toolkit">>

ResponseFields == {"query_info", "teaching_strategies", "classroom_activities",
                   "assessment_methods", "classroom_management",
                   "additional_resources", "timestamp"}

\* TeachingPracticeResponse(**given): fields left out take their defaults
\* (empty lists; timestamp = datetime.now()).
TeachingPracticeResponse(given, t) ==
    [f \in ResponseFields |->
        IF f \in DOMAIN given THEN given[f]
        ELSE IF f = "timestamp" THEN t
        ELSE <<>>]

\* The response built on the success path.
ComputedResponse(q, svc, t) ==
    TeachingPracticeResponse(
        [query_info |-> asdict(q),
         teaching_strategies  |-> Fetch("teaching_strategies", q, svc),
         classroom_activities |-> Fetch("classroom_activities", q, svc),
         assessment_methods   |-> Fetch("assessment_methods", q, svc),
         classroom_management |-> Fetch("classroom_management", q, svc),
         additional_resources |-> AdditionalResources], t)

\* Variant: the except branch also attaches the additional resources.
FallbackResponse_resources(q, t) ==
    TeachingPracticeResponse(
        [query_info |-> asdict(q),
         teaching_strategies  |-> DefaultItems("teaching_strategies"),
         classroom_activities |-> DefaultItems("classroom_activities"),
         assessment_methods   |-> DefaultItems("assessment_methods"),
         classroom_management |-> DefaultItems("classroom_management"),
         additional_resources |-> AdditionalResources], t)

\* The response built in the except branch.
FallbackResponse(q, t) ==
    TeachingPracticeResponse(
        [query_info |-> asdict(q),
         teaching_strategies  |-> DefaultItems("teaching_strategies"),
         classroom_activities |-> DefaultItems("classroom_activities"),
         assessment_methods   |-> DefaultItems("assessment_methods"),
         classroom_management |-> DefaultItems("classroom_management")], t)

\* Variant: the stored dict leaves the response's own timestamp out.
ToDict_no_timestamp(r) == [f \in DOMAIN r \ {"timestamp"} |-> r[f]]

\* response.dict(): every field, by name.
ToDict(r) == [f \in DOMAIN r |-> r[f]]

\* datetime.isoformat() and datetime.fromisoformat().
isoformat(t) == <<"iso", t>>
fromisoformat(s) == s[2]

\* Variant: the entry is written without its timestamp.
CacheEntry_no_timestamp(r, t) == [data |-> ToDict(r)]

\* The entry written on the success path.
CacheEntry(r, t) == [data |-> ToDict(r), timestamp |-> isoformat(t)]

\* The entry a test writes into service.cache by hand: no timestamp.
TestKey == [prefix |-> "test_key", h |-> 0]

TestEntry == [data |-> [raw |-> "test_data"]]

\* Variant: an entry aged exactly ttl still counts as valid.
_is_cache_valid_inclusive(entry, t, ttl) ==
    IF "timestamp" \notin DOMAIN entry THEN FALSE
    ELSE (t - fromisoformat(entry.timestamp)) <= ttl

_is_cache_valid(entry, t, ttl) ==
    IF "timestamp" \notin DOMAIN entry THEN FALSE
    ELSE (t - fromisoformat(entry.timestamp)) < ttl

\* Variant: every entry that carries a timestamp is counted as valid.
get_cache_stats_unchecked(c, t, ttl) ==
    LET total_entries == Cardinality(DOMAIN c)
        valid_entries == Cardinality({k \in DOMAIN c : "timestamp" \in DOMAIN c[k]})
    IN  [total_entries   |-> total_entries,
         valid_entries   |-> valid_entries,
         expired_entries |-> total_entries - valid_entries,
         cache_ttl       |-> ttl]

get_cache_stats(c, t, ttl) ==
    LET total_entries == Cardinality(DOMAIN c)
        valid_entries == Cardinality({k \in DOMAIN c : _is_cache_valid(c[k], t, ttl)})
    IN  [total_entries   |-> total_entries,
         valid_entries   |-> valid_entries,
         expired_entries |-> total_entries - valid_entries,
         cache_ttl       |-> ttl]

(***************************************************************************)
(* The service as a state machine.                                         *)
(***************************************************************************)
\* Two callers share the service on one event loop; each makes one call.
Calls == {1, 2}

SubjectMath == PyEnum("SubjectType", 2)

\* The queries callers issue: the cached test's, the health check's, and a
\* batch query whose JSON carried the limit as a string.
QueryMath2    == TeachingPracticeQuery(<<<<"subject", SubjectMath>>, <<"limit", PyInt(2)>>>>)
QueryHealth   == TeachingPracticeQuery(<<<<"limit", PyInt(1)>>>>)
QueryStrLimit == TeachingPracticeQuery(<<<<"limit", PyStr(5)>>>>)
Queries == {QueryMath2, QueryHealth, QueryStrLimit}

KeySlots == {1, 2}

NoQuery  == [none |-> "query"]
NoKey    == [prefix |-> "none", h |-> 0]
NoResult == [none |-> "result"]
NotStarted == [none |-> "not started"]
Absent   == [none |-> "absent"]
EmptyCache == <<>>
NoStats  == [none |-> "stats"]

Put(c, k, e) == [x \in DOMAIN c \cup {k} |-> IF x = k THEN e ELSE c[x]]

CacheInit ==
    /\ cache = EmptyCache
    /\ cache_ttl \in 0..MaxTtl
    /\ now = 0
    /\ hash_seed \in 0..MaxSeed
    /\ pc = [c \in Calls |-> "idle"]
    /\ call_query = [c \in Calls |-> NoQuery]
    /\ call_key = [c \in Calls |-> NoKey]
    /\ result = [c \in Calls |-> NoResult]
    /\ outcome = [c \in Calls |-> "none"]
    /\ seen = [c \in Calls |-> NotStarted]
    /\ began = [c \in Calls |-> -1]
    /\ fetches = [c \in Calls |-> 0]
    /\ overlap = [c \in Calls |-> {}]
    /\ stats_out = NoStats
    /\ cleared = {}

\* Variant: any timestamped entry under the key is served, whatever its age.
CacheHit_any_age(c, k, t, ttl) == k \in DOMAIN c /\ "timestamp" \in DOMAIN c[k]

\* The cache lookup at the top of get_teaching_practices.
CacheHit(c, k, t, ttl) == k \in DOMAIN c /\ _is_cache_valid(c[k], t, ttl)

\* Variant: a hit renews the timestamp of the entry it was served from.
StoreOnHit_refreshed(c, k, t) ==
    Put(c, k, [data |-> c[k].data, timestamp |-> isoformat(t)])

\* The store after a call was served from the cache: the hit branch only
\* reads.
StoreOnHit(c, k, t) == c

\* Variant: an entry already under the key is kept (first write wins).
StoreResult_first_wins(c, k, r, t) ==
    IF k \in DOMAIN c THEN c ELSE Put(c, k, CacheEntry(r, t))

\* Variant: a response that carries built-in default items is not stored.
StoreResult_skip_defaults(c, k, r, t) ==
    IF \E cat \in Categories :
           r[cat] # <<>> /\ r[cat][1] = DefaultItems(cat)[1]
    THEN c
    ELSE Put(c, k, CacheEntry(r, t))

\* Variant: nothing is written into a store that is empty.
StoreResult_unless_empty(c, k, r, t) ==
    IF c = EmptyCache THEN c ELSE Put(c, k, CacheEntry(r, t))

\* The store after a successful computation.
StoreResult(c, k, r, t) == Put(c, k, CacheEntry(r, t))

\* Variant: the default response of the except branch is stored as well.
StoreOnError_memoized(c, k, r, t) == Put(c, k, CacheEntry(r, t))

\* The store after a computation that raised.
StoreOnError(c, k, r, t) == c

\* get_teaching_practices up to its first suspension: derive the key, look
\* it up, and either return the cached response or start the four fetches.
get_teaching_practices_start(c, q) ==
    /\ pc[c] = "idle"
    /\ LET k == _generate_cache_key(hash_seed, q)
           hit == CacheHit(cache, k, now, cache_ttl)
       IN  /\ call_query' = [call_query EXCEPT ![c] = q]
           /\ call_key' = [call_key EXCEPT ![c] = k]
           /\ seen' = [seen EXCEPT ![c] = IF k \in DOMAIN cache THEN cache[k] ELSE Absent]
           /\ began' = [began EXCEPT ![c] = now]
           /\ overlap' = [overlap EXCEPT ![c] = {d \in Calls : pc[d] = "fetching"}]
           /\ IF hit
              THEN /\ cache' = StoreOnHit(cache, k, now)
                   /\ result' = [result EXCEPT
                           ![c] = TeachingPracticeResponse(cache[k].data, now)]
                   /\ outcome' = [outcome EXCEPT ![c] = "hit"]
                   /\ pc' = [pc EXCEPT ![c] = "done"]
                   /\ UNCHANGED fetches
              ELSE /\ pc' = [pc EXCEPT ![c] = "fetching"]
                   /\ fetches' = [fetches EXCEPT ![c] = @ + 1]
                   /\ UNCHANGED <<cache, result, outcome>>
    /\ UNCHANGED <<cache_ttl, now, hash_seed>>
    /\ UNCHANGED <<stats_out, cleared, keyVars, fuseVars, dedupVars>>

\* get_teaching_practices after gather returned: build the response, store
\* it under the key computed at the start, return it.
get_teaching_practices_finish(c, svc) ==
    /\ pc[c] = "fetching"
    /\ ~GatherRaises(call_query[c])
    /\ LET r == ComputedResponse(call_query[c], svc, now)
       IN  /\ cache' = StoreResult(cache, call_key[c], r, now)
           /\ result' = [result EXCEPT ![c] = r]
    /\ outcome' = [outcome EXCEPT ![c] = "computed"]
    /\ pc' = [pc EXCEPT ![c] = "done"]
    /\ UNCHANGED <<cache_ttl, now, hash_seed, call_query, call_key, seen, began,
                   fetches, overlap>>
    /\ UNCHANGED <<stats_out, cleared, keyVars, fuseVars, dedupVars>>

\* get_teaching_practices after gather raised: the except branch logs the
\* error and returns the default response.
get_teaching_practices_except(c) ==
    /\ pc[c] = "fetching"
    /\ GatherRaises(call_query[c])
    /\ LET r == FallbackResponse(call_query[c], now)
       IN  /\ cache' = StoreOnError(cache, call_key[c], r, now)
           /\ result' = [result EXCEPT ![c] = r]
    /\ outcome' = [outcome EXCEPT ![c] = "fallback"]
    /\ pc' = [pc EXCEPT ![c] = "done"]
    /\ UNCHANGED <<cache_ttl, now, hash_seed, call_query, call_key, seen, began,
                   fetches, overlap>>
    /\ UNCHANGED <<stats_out, cleared, keyVars, fuseVars, dedupVars>>

\* Variant: only entries that carry a timestamp are removed.
Cleared_timestamped_only(c) ==
    [k \in {x \in DOMAIN c : "timestamp" \notin DOMAIN c[x]} |-> c[k]]

\* The store after clear_cache.
Cleared(c) == EmptyCache

clear_cache ==
    /\ cache # EmptyCache
    /\ cache' = Cleared(cache)
    /\ UNCHANGED <<cache_ttl, now, hash_seed, pc, call_query, call_key,
                   result, outcome, seen, began, fetches, overlap>>
    /\ UNCHANGED <<stats_out, cleared, keyVars, fuseVars, dedupVars>>

\* clear_cache, with the calls it finds suspended in their fetches noted in
\* the history.
clear_cache_noted ==
    /\ cache # EmptyCache
    /\ cache' = Cleared(cache)
    /\ cleared' = cleared \cup {c \in Calls : pc[c] = "fetching"}
    /\ UNCHANGED <<cache_ttl, now, hash_seed, pc, call_query, call_key,
                   result, outcome, seen, began, fetches, overlap>>
    /\ UNCHANGED <<stats_out, keyVars, fuseVars, dedupVars>>

\* A test writes an entry straight into service.cache.
TestWrite ==
    /\ TestKey \notin DOMAIN cache
    /\ cache' = Put(cache, TestKey, TestEntry)
    /\ UNCHANGED <<cache_ttl, now, hash_seed, pc, call_query, call_key,
                   result, outcome, seen, began, fetches, overlap>>
    /\ UNCHANGED <<stats_out, cleared, keyVars, fuseVars, dedupVars>>

\* A caller asks for the statistics.
get_cache_stats_call ==
    /\ stats_out' = get_cache_stats(cache, now, cache_ttl)
    /\ UNCHANGED <<cache, cache_ttl, now, hash_seed, pc, call_query, call_key,
                   result, outcome, seen, began, fetches, overlap, cleared>>
    /\ UNCHANGED <<keyVars, fuseVars, dedupVars>>

\* The clock advances between steps.
Tick ==
    /\ now < MaxTime
    /\ now' = now + 1
    /\ UNCHANGED <<cache, cache_ttl, hash_seed, pc, call_query, call_key,
                   result, outcome, seen, began, fetches, overlap>>
    /\ UNCHANGED <<stats_out, cleared, keyVars, fuseVars, dedupVars>>

\* No key derivation under way.
KeyIdle ==
    /\ key_kwargs = [i \in KeySlots |-> <<>>]
    /\ key_str = [i \in KeySlots |-> <<>>]
    /\ key_out = [i \in KeySlots |-> NoKey]

\* A call that has not been made.
NoCall == [called |-> FALSE, raised |-> FALSE, value |-> <<>>]

\* No fusion under way.
FuseIdle ==
    /\ fuse_a = <<>>
    /\ fuse_b = <<>>
    /\ fuse_query = [fusion_method |-> "none"]
    /\ fuse_status = "idle"
    /\ fuse_out = <<>>
    /\ fuse_self = NoCall
    /\ fuse_again = NoCall

\* No deduplication on its own under way.
DedupIdle ==
    /\ dedup_results = <<>>
    /\ dedup_threshold = [num |-> 0, den |-> 1]
    /\ dedup_out = NoCall

vars == <<cacheVars, keyVars, fuseVars, dedupVars>>

Init == CacheInit /\ KeyIdle /\ FuseIdle /\ DedupIdle

Next ==
    \/ \E c \in Calls, q \in Queries : get_teaching_practices_start(c, q)
    \/ \E c \in Calls, svc \in ServiceScenarios : get_teaching_practices_finish(c, svc)
    \/ \E c \in Calls : get_teaching_practices_except(c)
    \/ clear_cache
    \/ TestWrite
    \/ Tick

Spec == Init /\ [][Next]_vars

(***************************************************************************)
(* Properties of the cache.                                                *)
(***************************************************************************)
HasTimestamp(e) == "timestamp" \in DOMAIN e

WrittenAt(e) == fromisoformat(e.timestamp)

\* Call c2 started on the entry that call c1 had computed and stored, with
\* the same query, less than ttl after it was written.
FollowsWithinTtl(c1, c2) ==
    /\ c1 # c2
    /\ outcome[c1] = "computed"
    /\ pc[c2] # "idle"
    /\ call_query[c2] = call_query[c1]
    /\ seen[c2] = [data |-> ToDict(result[c1]),
                   timestamp |-> isoformat(result[c1].timestamp)]
    /\ began[c2] - result[c1].timestamp < cache_ttl

\* C1: of two calls with the same query, the second starting on the entry
\* the first stored and less than ttl after it was written, only the first
\* invokes the compute step, and the second returns the first's response.
C1_CacheHitPath ==
    \A c1, c2 \in Calls :
        FollowsWithinTtl(c1, c2) =>
            /\ pc[c2] = "done"
            /\ outcome[c2] = "hit"
            /\ fetches[c1] + fetches[c2] = 1
            /\ result[c2] = result[c1]

C1_Witness ==
    \E c1, c2 \in Calls :
        /\ FollowsWithinTtl(c1, c2)
        /\ began[c2] > result[c1].timestamp
        /\ outcome[c2] = "hit"

\* Call c started when the entry under its key was at least ttl old.
StartedOnExpired(c) ==
    /\ pc[c] # "idle"
    /\ HasTimestamp(seen[c])
    /\ began[c] - WrittenAt(seen[c]) >= cache_ttl

\* C2: a call that starts when the entry under its key is at least ttl old
\* invokes the compute step and returns a freshly built response, never the
\* stored one; with ttl = 0 no call is ever served from the cache.
C2_Expiry ==
    /\ \A c \in Calls :
          StartedOnExpired(c) =>
              /\ fetches[c] = 1
              /\ outcome[c] # "hit"
              /\ pc[c] = "done" => /\ outcome[c] \in {"computed", "fallback"}
                                   /\ result[c].timestamp >= began[c]
    /\ cache_ttl = 0 =>
          \A c \in Calls : pc[c] # "idle" => fetches[c] = 1 /\ outcome[c] # "hit"

C2_Witness ==
    \E c \in Calls :
        /\ StartedOnExpired(c)
        /\ cache_ttl > 0
        /\ pc[c] = "done"
        /\ outcome[c] = "computed"
        /\ result[c].timestamp > WrittenAt(seen[c])

\* The step in which call c leaves its fetches because the compute step raised.
ComputeRaised(c) ==
    /\ pc[c] = "fetching"
    /\ pc'[c] = "done"
    /\ call_query[c].limit.t = "str"

\* C3: when the compute step raises, the store after the call is the store
\* before it: no entry is added or overwritten.
C3_FailureNotMemoized ==
    [][\A c \in Calls : ComputeRaised(c) => cache' = cache]_vars

C3_Witness ==
    \E c \in Calls :
        /\ pc[c] = "done"
        /\ call_query[c].limit.t = "str"
        /\ outcome[c] = "fallback"
        /\ call_key[c] \notin DOMAIN cache
        /\ cache # EmptyCache

ConcurrentMisses(c, d) ==
    /\ c # d
    /\ call_key[c] = call_key[d]
    /\ fetches[c] = 1
    /\ fetches[d] = 1
    /\ (d \in overlap[c] \/ c \in overlap[d])

\* C5: when two calls miss on the same key before either has written and
\* both computations succeed, each returns the response it computed itself,
\* and when the later one finishes the store holds, under that one key, the
\* later one's response and write time.
C5_LastWriteWins ==
    [][\A c, d \in Calls :
          ( /\ ConcurrentMisses(c, d)
            /\ outcome[d] = "computed"
            /\ pc[c] = "fetching"
            /\ pc'[c] = "done"
            /\ outcome'[c] = "computed" )
          => /\ result'[c].timestamp = now
             /\ result'[d] = result[d]
             /\ call_key[c] \in DOMAIN cache'
             /\ cache'[call_key[c]] = [data |-> ToDict(result'[c]),
                                       timestamp |-> isoformat(now)]
             /\ DOMAIN cache' = DOMAIN cache \cup {call_key[c]}
      ]_vars

C5_Witness ==
    \E c, d \in Calls :
        /\ ConcurrentMisses(c, d)
        /\ outcome[c] = "computed"
        /\ outcome[d] = "computed"
        /\ result[d].timestamp < result[c].timestamp
        /\ call_key[c] \in DOMAIN cache
        /\ cache[call_key[c]] = [data |-> ToDict(result[c]),
                                 timestamp |-> isoformat(result[c].timestamp)]

\* C6: clear_cache leaves the store empty (total_entries = 0) whatever it
\* held, and leaves the ttl as it was.
C6_ClearEmptiesStore ==
    [][clear_cache =>
          /\ cache' = EmptyCache
          /\ get_cache_stats(cache', now', cache_ttl').total_entries = 0
          /\ cache_ttl' = cache_ttl
      ]_vars

C6_Witness ==
    /\ cache = EmptyCache
    /\ \E c, d \in Calls :
          /\ c # d
          /\ outcome[c] = "computed"
          /\ outcome[d] = "computed"
          /\ call_key[c] # call_key[d]

\* C7: in every reachable state the statistics report the number of stored
\* entries, the number of them with now - created_at < ttl, the difference
\* of the two, and the ttl.
C7_StatsCounts ==
    LET total == Cardinality(DOMAIN cache)
        valid == Cardinality({k \in DOMAIN cache :
                     /\ HasTimestamp(cache[k])
                     /\ now - WrittenAt(cache[k]) < cache_ttl})
    IN  get_cache_stats(cache, now, cache_ttl) =
            [total_entries   |-> total,
             valid_entries   |-> valid,
             expired_entries |-> total - valid,
             cache_ttl       |-> cache_ttl]

C7_Witness ==
    /\ get_cache_stats(cache, now, cache_ttl).total_entries = 2
    /\ get_cache_stats(cache, now, cache_ttl).valid_entries = 1
    /\ get_cache_stats(cache, now, cache_ttl).expired_entries = 1
    /\ \E k \in DOMAIN cache :
          HasTimestamp(cache[k]) /\ now - WrittenAt(cache[k]) = 0
    /\ \E k \in DOMAIN cache :
          HasTimestamp(cache[k]) /\ now - WrittenAt(cache[k]) > cache_ttl

\* C9: a stored entry is valid exactly when it has a timestamp and
\* now - created_at < ttl (an age of exactly ttl is invalid, a missing
\* timestamp is invalid), and a call is served from the cache only by an
\* entry that was valid when the call looked it up.
C9_EntryValidity ==
    /\ \A k \in DOMAIN cache :
          _is_cache_valid(cache[k], now, cache_ttl) <=>
              (HasTimestamp(cache[k]) /\ now - WrittenAt(cache[k]) < cache_ttl)
    /\ \A k \in DOMAIN cache :
          (HasTimestamp(cache[k]) /\ now - WrittenAt(cache[k]) = cache_ttl)
              => ~_is_cache_valid(cache[k], now, cache_ttl)
    /\ \A c \in Calls :
          outcome[c] = "hit" =>
              /\ HasTimestamp(seen[c])
              /\ began[c] - WrittenAt(seen[c]) < cache_ttl
              /\ result[c] = TeachingPracticeResponse(seen[c].data, began[c])

C9_Witness ==
    /\ cache_ttl > 0
    /\ \E k \in DOMAIN cache : ~HasTimestamp(cache[k])
    /\ \E k \in DOMAIN cache :
          HasTimestamp(cache[k]) /\ now - WrittenAt(cache[k]) = cache_ttl
    /\ \E c \in Calls :
          /\ pc[c] # "idle"
          /\ HasTimestamp(seen[c])
          /\ began[c] - WrittenAt(seen[c]) = cache_ttl
          /\ outcome[c] # "hit"

(***************************************************************************)
(* Key derivation on its own: two queries, written with their keyword      *)
(* arguments in either order, are turned into cache keys.                  *)
(***************************************************************************)
\* The values each field takes in the queries below.
KeyFieldValues(f) ==
    CASE f = "subject"     -> {PyNone, SubjectMath}
      [] f = "grade"       -> {PyNone, PyEnum("GradeLevel", 5)}
      [] f = "objective"   -> {PyNone, PyEnum("TeachingObjective", 7)}
      [] f = "method_type" -> {PyNone, PyEnum("TeachingMethodType", 1)}
      [] f = "keywords"    -> {PyNone, PyList(1)}
      [] f = "language"    -> {PyStr(1), PyStr(2)}
      [] f = "limit"       -> {PyInt(10), PyInt(5), PyStr(5)}

\* The queries: every choice of field values with at most MaxGiven fields
\* away from their defaults.
KeyQueries ==
    {q \in [subject : KeyFieldValues("subject"), grade : KeyFieldValues("grade"),
            objective : KeyFieldValues("objective"),
            method_type : KeyFieldValues("method_type"),
            keywords : KeyFieldValues("keywords"),
            language : KeyFieldValues("language"),
            limit : KeyFieldValues("limit")] :
        Cardinality({f \in FieldSet : q[f] # FieldDefault(f)}) <= MaxGiven}

Reverse(s) == [i \in 1..Len(s) |-> s[Len(s) + 1 - i]]

\* The keyword arguments that build q: the fields that differ from their
\* defaults, in declaration order or in the opposite order.
KwargsOf(q, reversed) ==
    LET given == SelectSeq(asdict(q), LAMBDA it : it[2] # FieldDefault(it[1]))
    IN  IF reversed THEN Reverse(given) ELSE given

KeyInputs == {KwargsOf(q, r) : q \in KeyQueries, r \in BOOLEAN}

KeyInit ==
    /\ CacheInit
    /\ cache_ttl = 0
    /\ KeyIdle
    /\ FuseIdle
    /\ DedupIdle

\* _generate_cache_key(TeachingPracticeQuery(**kwargs)) for slot i.
GenerateKey(i, kwargs) ==
    /\ key_out[i] = NoKey
    /\ \A j \in KeySlots : j < i => key_out[j] # NoKey
    /\ LET q == TeachingPracticeQuery(kwargs)
       IN  /\ key_kwargs' = [key_kwargs EXCEPT ![i] = kwargs]
           /\ key_str' = [key_str EXCEPT ![i] = CanonStr(q)]
           /\ key_out' = [key_out EXCEPT ![i] = _generate_cache_key(hash_seed, q)]
    /\ UNCHANGED <<cacheVars, fuseVars, dedupVars>>

KeyNext == \E i \in KeySlots, kwargs \in KeyInputs : GenerateKey(i, kwargs)

SpecKey == KeyInit /\ [][KeyNext]_vars

BothKeysDerived == \A i \in KeySlots : key_out[i] # NoKey

\* Every field has the same value in both queries.
SameFields ==
    \A f \in FieldSet :
        TeachingPracticeQuery(key_kwargs[1])[f] = TeachingPracticeQuery(key_kwargs[2])[f]

C8_CollisionReached ==
    /\ BothKeysDerived
    /\ ~SameFields
    /\ key_out[1] = key_out[2]


-----------------------------------------------------------------------------
\* Result fusion (HybridRAGSystem._fuse_results and its strategies).
\*
\* A fragment is a dict: a record whose fields are the keys present.  Its
\* content is the sequence of its whitespace-separated words; a score is a
\* float counted in tenths, or None.

PyFloat(n) == [t |-> "float", v |-> n]

IsNumber(val) == val.t \in {"int", "float"}

\* d.get(key, default)
get(d, key, default) == IF key \in DOMAIN d THEN d[key] ELSE default

RrfK == 60                  \* k in _rank_fusion
PrefixWords == 2            \* words covered by content[:100]
DefaultScoreWeighted == 5   \* result.get('score', 0.5), in tenths
DefaultScoreSimilarity == 0 \* x.get('score', 0)
ThresholdNum == 8           \* similarity_threshold = 0.8 = 8 / 10
ThresholdDen == 10
DefaultTopK == 5            \* HybridQuery.top_k
\* Variant: deduplication at 0.5.
DefaultThreshold_half == [num |-> 1, den |-> 2]

DefaultThreshold == [num |-> ThresholdNum, den |-> ThresholdDen]

\* The outcome of a call: an exception, or the value returned.
Raise == [raised |-> TRUE, value |-> <<>>]
Return(v) == [raised |-> FALSE, value |-> v]

\* str.lower() of a word.
lower(w) == IF w = "Alpha" THEN "alpha" ELSE w

\* set(content.lower().split())
Words(content) == {lower(content[i]) : i \in 1..Len(content)}

WordCode(w) ==
    CASE w = "alpha" -> 1 [] w = "Alpha" -> 2 [] w = "beta" -> 3 [] w = "gamma" -> 4
      [] w = "delta" -> 5 [] w = "epsilon" -> 6

\* content[:100], as character codes.
Prefix(content) ==
    [i \in 1..Min(PrefixWords, Len(content)) |-> WordCode(content[i])]

\* Variant: an item is placed before the items of equal key already sorted.
InsertDesc_ties_first(done, p) ==
    LET n == Cardinality({i \in 1..Len(done) : done[i][1] > p[1]})
    IN  SubSeq(done, 1, n) \o <<p>> \o SubSeq(done, n + 1, Len(done))

\* list.sort(key=..., reverse=True) on <<key, item>> pairs: stable, so items
\* of equal key keep their order.
InsertDesc(done, p) ==
    LET n == Cardinality({i \in 1..Len(done) : done[i][1] >= p[1]})
    IN  SubSeq(done, 1, n) \o <<p>> \o SubSeq(done, n + 1, Len(done))

RECURSIVE SortDescFrom(_, _)
SortDescFrom(done, rest) ==
    IF rest = <<>> THEN done
    ELSE SortDescFrom(InsertDesc(done, Head(rest)), Tail(rest))

SortDesc(pairs) ==
    LET s == SortDescFrom(<<>>, pairs) IN [i \in 1..Len(s) |-> s[i][2]]

\* Variant: two empty word sets count as identical.
IsDuplicate_empty_matches(current, existing, threshold) ==
    LET current_words == Words(current.content)
        existing_words == Words(existing.content)
    IN  IF current_words = {} /\ existing_words = {}
        THEN threshold.den > threshold.num
        ELSE Cardinality(current_words \cap existing_words) * threshold.den
               > threshold.num * Cardinality(current_words \cup existing_words)

\* Variant: a similarity equal to the threshold already counts as a duplicate.
IsDuplicate_inclusive(current, existing, threshold) ==
    LET current_words == Words(current.content)
        existing_words == Words(existing.content)
    IN  /\ current_words # {}
        /\ existing_words # {}
        /\ Cardinality(current_words \cap existing_words) * threshold.den
             >= threshold.num * Cardinality(current_words \cup existing_words)

\* The similarity test in _deduplicate_results: Jaccard similarity of the two
\* word sets strictly above the threshold; an empty word set matches nothing.
IsDuplicate(current, existing, threshold) ==
    LET current_words == Words(current.content)
        existing_words == Words(existing.content)
    IN  /\ current_words # {}
        /\ existing_words # {}
        /\ Cardinality(current_words \cap existing_words) * threshold.den
             > threshold.num * Cardinality(current_words \cup existing_words)

\* Variant: a candidate is compared with the last accepted fragment only.
RECURSIVE DedupFrom_last_only(_, _, _)
DedupFrom_last_only(deduplicated, rest, threshold) ==
    IF rest = <<>> THEN deduplicated
    ELSE LET current == Head(rest)
             is_duplicate == IsDuplicate(current, deduplicated[Len(deduplicated)],
                                         threshold)
         IN  DedupFrom_last_only(IF is_duplicate THEN deduplicated
                                 ELSE Append(deduplicated, current),
                                 Tail(rest), threshold)

RECURSIVE DedupFrom(_, _, _)
DedupFrom(deduplicated, rest, threshold) ==
    IF rest = <<>> THEN deduplicated
    ELSE LET current == Head(rest)
             is_duplicate == \E i \in 1..Len(deduplicated) :
                                 IsDuplicate(current, deduplicated[i], threshold)
         IN  DedupFrom(IF is_duplicate THEN deduplicated
                       ELSE Append(deduplicated, current),
                       Tail(rest), threshold)

\* _deduplicate_results: the first result is kept without being looked at;
\* from the second on, result['content'] and existing['content'] are read,
\* which is a KeyError on a fragment that has no content.
_deduplicate_results(results, threshold) ==
    IF results = <<>> THEN Return(<<>>)
    ELSE IF Len(results) >= 2
            /\ \E i \in 1..Len(results) : "content" \notin DOMAIN results[i]
         THEN Raise
         ELSE Return(DedupFrom(<<results[1]>>, Tail(results), threshold))

\* The copy _weighted_fusion makes of a fragment, with its weighted_score (in
\* hundredths) added.
Weighted(fragment, weight) ==
    [k \in DOMAIN fragment \cup {"weighted_score"} |->
        IF k = "weighted_score"
        THEN PyFloat(get(fragment, "score", PyFloat(DefaultScoreWeighted)).v * weight)
        ELSE fragment[k]]

\* all_results of _weighted_fusion once sorted: the weighted copies, A's
\* then B's, in descending order of weighted_score.
WeightedCandidates(llamaindex_results, langchain_results, ll_weight, lc_weight) ==
    LET all_results ==
            [i \in 1..Len(llamaindex_results) |->
                Weighted(llamaindex_results[i], ll_weight)]
            \o [i \in 1..Len(langchain_results) |->
                Weighted(langchain_results[i], lc_weight)]
    IN  SortDesc([i \in 1..Len(all_results) |->
                     <<all_results[i].weighted_score.v, all_results[i]>>])

\* _weighted_fusion: score * weight is a TypeError when the score is None.
_weighted_fusion(llamaindex_results, langchain_results, ll_weight, lc_weight) ==
    LET scores == [i \in 1..Len(llamaindex_results \o langchain_results) |->
                      get((llamaindex_results \o langchain_results)[i], "score",
                          PyFloat(DefaultScoreWeighted))]
    IN  IF \E i \in 1..Len(scores) : ~IsNumber(scores[i]) THEN Raise
        ELSE _deduplicate_results(
                 WeightedCandidates(llamaindex_results, langchain_results,
                                    ll_weight, lc_weight),
                 DefaultThreshold)

\* 1 / (k + rank), in units of 1 / RrfUnit so that sums stay integers.
RECURSIVE RrfProduct(_)
RrfProduct(n) == IF n = 0 THEN 1 ELSE (RrfK + n) * RrfProduct(n - 1)

RrfUnit == RrfProduct(MaxFragments)

\* Variant: every position contributes what the first one does.
Rrf_flat(rank) == RrfUnit \div (RrfK + 1)

Rrf(rank) == RrfUnit \div (RrfK + rank)

\* Variant: a group keeps the contribution of its first fragment only.
RECURSIVE RankPass_first_only(_, _, _, _)
RankPass_first_only(score_dict, results, rank, seed) ==
    IF rank > Len(results) THEN score_dict
    ELSE LET content_hash == hash(seed, Prefix(results[rank].content))
             known == \E i \in 1..Len(score_dict) : score_dict[i].h = content_hash
         IN  RankPass_first_only(
                 IF known THEN score_dict
                 ELSE Append(score_dict, [h |-> content_hash,
                                          result |-> results[rank],
                                          rrf_score |-> Rrf(rank)]),
                 results, rank + 1, seed)

\* Variant: a group is represented by the fragment met last.
RECURSIVE RankPass_last_kept(_, _, _, _)
RankPass_last_kept(score_dict, results, rank, seed) ==
    IF rank > Len(results) THEN score_dict
    ELSE LET content_hash == hash(seed, Prefix(results[rank].content))
             known == \E i \in 1..Len(score_dict) : score_dict[i].h = content_hash
             entered == IF known THEN score_dict
                        ELSE Append(score_dict, [h |-> content_hash,
                                                 result |-> results[rank],
                                                 rrf_score |-> 0])
             added == [i \in 1..Len(entered) |->
                          IF entered[i].h = content_hash
                          THEN [entered[i] EXCEPT !.rrf_score = @ + Rrf(rank),
                                                  !.result = results[rank]]
                          ELSE entered[i]]
         IN  RankPass_last_kept(added, results, rank + 1, seed)

\* One pass of _rank_fusion over a list: score_dict is kept as the sequence
\* of its entries in insertion order.
RECURSIVE RankPass(_, _, _, _)
RankPass(score_dict, results, rank, seed) ==
    IF rank > Len(results) THEN score_dict
    ELSE LET content_hash == hash(seed, Prefix(results[rank].content))
             known == \E i \in 1..Len(score_dict) : score_dict[i].h = content_hash
             entered == IF known THEN score_dict
                        ELSE Append(score_dict, [h |-> content_hash,
                                                 result |-> results[rank],
                                                 rrf_score |-> 0])
             added == [i \in 1..Len(entered) |->
                          IF entered[i].h = content_hash
                          THEN [entered[i] EXCEPT !.rrf_score = @ + Rrf(rank)]
                          ELSE entered[i]]
         IN  RankPass(added, results, rank + 1, seed)

\* score_dict after both passes of _rank_fusion.
RrfScoreDict(llamaindex_results, langchain_results, seed) ==
    RankPass(RankPass(<<>>, llamaindex_results, 1, seed),
             langchain_results, 1, seed)

\* _rank_fusion: result['content'] is a KeyError on a fragment without
\* content.
_rank_fusion(llamaindex_results, langchain_results, seed) ==
    LET both == llamaindex_results \o langchain_results
    IN  IF \E i \in 1..Len(both) : "content" \notin DOMAIN both[i] THEN Raise
        ELSE LET score_dict == RrfScoreDict(llamaindex_results,
                                            langchain_results, seed)
                 keyed == [i \in 1..Len(score_dict) |->
                              <<score_dict[i].rrf_score, score_dict[i].result>>]
             IN  Return(SortDesc(keyed))

\* Variant: the scores are weighed like those of weighted fusion, with the
\* default weights, before sorting.
SimilarityCandidates_weighted(llamaindex_results, langchain_results) ==
    LET all_results == llamaindex_results \o langchain_results
    IN  IF Len(all_results) <= 1 THEN all_results
        ELSE SortDesc([i \in 1..Len(all_results) |->
                          <<get(all_results[i], "score",
                                PyInt(DefaultScoreSimilarity)).v
                              * (IF i <= Len(llamaindex_results) THEN 6 ELSE 4),
                            all_results[i]>>])

\* all_results of _similarity_fusion once sorted: A's fragments then B's, in
\* descending order of their own score (0 when there is none).  A single
\* result is not compared with anything, whatever its score.
SimilarityCandidates(llamaindex_results, langchain_results) ==
    LET all_results == llamaindex_results \o langchain_results
    IN  IF Len(all_results) <= 1 THEN all_results
        ELSE SortDesc([i \in 1..Len(all_results) |->
                          <<get(all_results[i], "score",
                                PyInt(DefaultScoreSimilarity)).v,
                            all_results[i]>>])

\* _similarity_fusion: sorting compares the keys, a TypeError as soon as two
\* or more results are sorted and one key is None.
_similarity_fusion(llamaindex_results, langchain_results) ==
    LET all_results == llamaindex_results \o langchain_results
        scores == [i \in 1..Len(all_results) |->
                      get(all_results[i], "score", PyInt(DefaultScoreSimilarity))]
    IN  IF Len(all_results) >= 2 /\ \E i \in 1..Len(scores) : ~IsNumber(scores[i])
        THEN Raise
        ELSE _deduplicate_results(
                 SimilarityCandidates(llamaindex_results, langchain_results),
                 DefaultThreshold)

\* Variant: the merged list is sorted by score before it is cut.
_simple_merge_sorted(llamaindex_results, langchain_results, top_k) ==
    IF ~Sliceable(top_k) THEN Raise
    ELSE Return(SliceBy(SimilarityCandidates(llamaindex_results,
                                             langchain_results), top_k))

\* _simple_merge: (a + b)[:top_k]
_simple_merge(llamaindex_results, langchain_results, top_k) ==
    IF ~Sliceable(top_k) THEN Raise
    ELSE Return(SliceBy(llamaindex_results \o langchain_results, top_k))

\* Variant: whatever the strategy returns is cut to top_k.
SelectedStrategy_truncated(llamaindex_results, langchain_results, query, seed) ==
    LET r == CASE query.fusion_method = "weighted" ->
                    _weighted_fusion(llamaindex_results, langchain_results,
                                     query.llamaindex_weight, query.langchain_weight)
               [] query.fusion_method = "rank" ->
                    _rank_fusion(llamaindex_results, langchain_results, seed)
               [] query.fusion_method = "similarity" ->
                    _similarity_fusion(llamaindex_results, langchain_results)
               [] OTHER -> _simple_merge(llamaindex_results, langchain_results,
                                         query.top_k)
    IN  IF r.raised THEN r ELSE Return(SliceBy(r.value, query.top_k))

\* The try block of _fuse_results: the strategy named by fusion_method, the
\* simple merge for any other name.
SelectedStrategy(llamaindex_results, langchain_results, query, seed) ==
    CASE query.fusion_method = "weighted" ->
           _weighted_fusion(llamaindex_results, langchain_results,
                            query.llamaindex_weight, query.langchain_weight)
      [] query.fusion_method = "rank" ->
           _rank_fusion(llamaindex_results, langchain_results, seed)
      [] query.fusion_method = "similarity" ->
           _similarity_fusion(llamaindex_results, langchain_results)
      [] OTHER -> _simple_merge(llamaindex_results, langchain_results, query.top_k)

\* Variant: without the except clause, an error of the strategy reaches the
\* caller.
_fuse_results_no_except(llamaindex_results, langchain_results, query, seed) ==
    SelectedStrategy(llamaindex_results, langchain_results, query, seed)

\* _fuse_results: the selected strategy; on any exception, the simple merge
\* of the two lists it was given.
_fuse_results(llamaindex_results, langchain_results, query, seed) ==
    LET attempt == SelectedStrategy(llamaindex_results, langchain_results,
                                    query, seed)
    IN  IF attempt.raised
        THEN _simple_merge(llamaindex_results, langchain_results, query.top_k)
        ELSE attempt

\* The fragments a retriever may hand over, before it tags them with its
\* name: ordinary ones, a case variant, one without content, one whose score
\* is None, one with empty content and no score, and two whose word sets
\* overlap in exactly four words of five.  The scores are such that two
\* weighted scores are equal as exact products only where the float products
\* are equal too (same score, same weight).
Fragments ==
    { [content |-> <<"alpha", "beta">>, score |-> PyFloat(9)],
      [content |-> <<"alpha", "beta", "gamma">>, score |-> PyFloat(8)],
      [content |-> <<"Alpha", "beta">>, score |-> PyFloat(9)],
      [score |-> PyFloat(5)],
      [content |-> <<"gamma">>, score |-> PyNone],
      [content |-> <<>>],
      [content |-> <<"alpha", "beta", "gamma", "delta">>, score |-> PyFloat(4)],
      [content |-> <<"alpha", "beta", "gamma", "delta", "epsilon">>,
       score |-> PyFloat(8)] }

\* 'source': the retriever's name, set by _llamaindex_retrieve and
\* _langchain_retrieve.
Retrieved(fragment, source) ==
    [k \in DOMAIN fragment \cup {"source"} |->
        IF k = "source" THEN source ELSE fragment[k]]

ListsOver(S, n) == UNION {[1..k -> S] : k \in 0..n}

LlamaindexLists ==
    ListsOver({Retrieved(f, "llamaindex") : f \in Fragments}, MaxFragments)

\* The lists the second retriever may return when n fragments are left.
LangchainLists(n) ==
    ListsOver({Retrieved(f, "langchain") : f \in Fragments}, n)

\* HybridQuery: the fields fusion reads.  Weights are in tenths; the weights
\* only matter to the weighted method.
HybridQuery(fusion_method, top_k, llamaindex_weight, langchain_weight) ==
    [fusion_method |-> fusion_method, top_k |-> PyInt(top_k),
     llamaindex_weight |-> llamaindex_weight,
     langchain_weight |-> langchain_weight]

\* top_k only decides the simple merge, so the other methods, which reach it
\* through the except clause alone, get two values of it; the even weights
\* come with the default top_k.
HybridQueries ==
    {HybridQuery("simple", k, 6, 4) : k \in (1..MaxTopK) \cup {DefaultTopK}}
    \cup {HybridQuery(m, k, 6, 4) :
             m \in {"weighted", "rank", "similarity"}, k \in {MaxTopK, DefaultTopK}}
    \cup {HybridQuery("weighted", DefaultTopK, 5, 5)}

\* Variant: the weighted_score is written into the fragment it was given.
WeightedInput_no_copy(fragment, weight) == Weighted(fragment, weight)

\* A fragment of the input after _weighted_fusion has weighed it: the score
\* is assigned to the copy made by result.copy(), the fragment itself is
\* left as it was.
WeightedInput(fragment, weight) ==
    LET copy == Weighted(fragment, weight) IN fragment

\* The number of leading fragments of results that _weighted_fusion weighs
\* before a score that is no number stops it.
RECURSIVE Weighable(_)
Weighable(results) ==
    IF results = <<>> THEN 0
    ELSE IF ~IsNumber(get(Head(results), "score", PyFloat(DefaultScoreWeighted)))
         THEN 0
         ELSE 1 + Weighable(Tail(results))

\* Variant: similarity and simple fusion build all_results by extending
\* llamaindex_results in place.
InputsAfter_extended(llamaindex_results, langchain_results, query) ==
    IF query.fusion_method \in {"weighted", "rank"}
    THEN [a |-> llamaindex_results, b |-> langchain_results]
    ELSE [a |-> llamaindex_results \o langchain_results, b |-> langchain_results]

\* The two lists as the caller finds them after _fuse_results.  Weighted
\* fusion goes through the fragments, A's then B's, up to the first score it
\* cannot multiply; rank fusion only reads; similarity and simple fusion
\* work on the new list llamaindex_results + langchain_results.
InputsAfter(llamaindex_results, langchain_results, query) ==
    IF query.fusion_method = "weighted"
    THEN LET na == Weighable(llamaindex_results)
             nb == IF na = Len(llamaindex_results)
                   THEN Weighable(langchain_results) ELSE 0
         IN  [a |-> [i \in 1..Len(llamaindex_results) |->
                        IF i <= na
                        THEN WeightedInput(llamaindex_results[i],
                                           query.llamaindex_weight)
                        ELSE llamaindex_results[i]],
              b |-> [i \in 1..Len(langchain_results) |->
                        IF i <= nb
                        THEN WeightedInput(langchain_results[i],
                                           query.langchain_weight)
                        ELSE langchain_results[i]]]
    ELSE [a |-> llamaindex_results, b |-> langchain_results]

\* The two retrievers have returned; fusion is about to run.
FuseInit ==
    /\ CacheInit
    /\ cache_ttl = 0
    /\ KeyIdle
    /\ fuse_a \in LlamaindexLists
    /\ fuse_b \in LangchainLists(MaxFragments - Len(fuse_a))
    /\ fuse_query \in HybridQueries
    /\ fuse_query.fusion_method # "rank" => hash_seed = 0   \* only rank hashes
    /\ fuse_status = "pending"
    /\ fuse_out = <<>>
    /\ fuse_self = NoCall
    /\ fuse_again = NoCall
    /\ DedupIdle

\* fused_results = self._fuse_results(llamaindex_results, langchain_results, query)
Fuse ==
    /\ fuse_status = "pending"
    /\ LET r == _fuse_results(fuse_a, fuse_b, fuse_query, hash_seed)
       IN  /\ fuse_status' = IF r.raised THEN "raised" ELSE "returned"
           /\ fuse_out' = r.value
    /\ fuse_a' = InputsAfter(fuse_a, fuse_b, fuse_query).a
    /\ fuse_b' = InputsAfter(fuse_a, fuse_b, fuse_query).b
    /\ UNCHANGED <<cacheVars, keyVars, dedupVars, fuse_query, fuse_self,
                   fuse_again>>

FuseNext == Fuse

SpecFuse == FuseInit /\ [][FuseNext]_vars

\* The outcome of a call that has been made.
Called(r) == [called |-> TRUE, raised |-> r.raised, value |-> r.value]

\* A further call that passes list A for both lists, with the same query.
FuseSelf ==
    /\ fuse_status # "pending"
    /\ ~fuse_self.called
    /\ fuse_self' = Called(_fuse_results(fuse_a, fuse_a, fuse_query, hash_seed))
    /\ fuse_a' = InputsAfter(fuse_a, fuse_a, fuse_query).a
    /\ UNCHANGED <<cacheVars, keyVars, dedupVars, fuse_b, fuse_query, fuse_status,
                   fuse_out, fuse_again>>

\* The first call made once more, with the same arguments.
FuseAgain ==
    /\ fuse_self.called
    /\ ~fuse_again.called
    /\ fuse_again' = Called(_fuse_results(fuse_a, fuse_b, fuse_query, hash_seed))
    /\ fuse_a' = InputsAfter(fuse_a, fuse_b, fuse_query).a
    /\ fuse_b' = InputsAfter(fuse_a, fuse_b, fuse_query).b
    /\ UNCHANGED <<cacheVars, keyVars, dedupVars, fuse_query, fuse_status, fuse_out,
                   fuse_self>>

FuseTwiceNext == Fuse \/ FuseSelf \/ FuseAgain

SpecFuseTwice == FuseInit /\ [][FuseTwiceNext]_vars

FuseDone == fuse_status # "pending"

\* The selected strategy raised inside the try block.
StrategyRaised ==
    SelectedStrategy(fuse_a, fuse_b, fuse_query, hash_seed).raised

\* C10: fuse never raises, and when the selected strategy raises it returns
\* the first top_k elements of listA followed by listB, the fragments being
\* the ones it was given.
C10_FallbackSafety ==
    FuseDone =>
        /\ fuse_status = "returned"
        /\ StrategyRaised =>
              LET both == fuse_a \o fuse_b
                  n == IF fuse_query.top_k.v < Len(both)
                       THEN fuse_query.top_k.v ELSE Len(both)
              IN  fuse_out = [i \in 1..n |-> both[i]]

\* A weighted fusion met a None score, with more fragments than top_k and
\* both lists non-empty.
C10_Witness ==
    /\ FuseDone
    /\ fuse_status = "returned"
    /\ fuse_query.fusion_method = "weighted"
    /\ StrategyRaised
    /\ \E i \in 1..Len(fuse_b) :
          "score" \in DOMAIN fuse_b[i] /\ fuse_b[i].score = PyNone
    /\ fuse_a # <<>>
    /\ Len(fuse_a) + Len(fuse_b) > fuse_query.top_k.v
    /\ fuse_out # <<>>

\* A rank fusion met a fragment without content.
C10_WitnessRank ==
    /\ FuseDone
    /\ fuse_query.fusion_method = "rank"
    /\ StrategyRaised
    /\ \E i \in 1..Len(fuse_a) : "content" \notin DOMAIN fuse_a[i]
    /\ fuse_out = fuse_a \o fuse_b
    /\ Len(fuse_out) >= 2

\* A similarity fusion failed in its sort or its deduplication.
C10_WitnessSimilarity ==
    /\ FuseDone
    /\ fuse_query.fusion_method = "similarity"
    /\ StrategyRaised
    /\ fuse_out = fuse_a \o fuse_b
    /\ Len(fuse_out) >= 2

-----------------------------------------------------------------------------
\* Properties of the fusion strategies.

Returned == fuse_status = "returned" /\ ~StrategyRaised

\* The sorted candidate list the weighted or similarity strategy hands to
\* deduplication.
SortedCandidates ==
    IF fuse_query.fusion_method = "weighted"
    THEN WeightedCandidates(fuse_a, fuse_b, fuse_query.llamaindex_weight,
                            fuse_query.langchain_weight)
    ELSE SimilarityCandidates(fuse_a, fuse_b)

\* Both word sets are non-empty and their Jaccard similarity is strictly
\* above num / den.
JaccardAbove(x, y, num, den) ==
    LET xs == Words(x.content)
        ys == Words(y.content)
    IN  /\ xs # {}
        /\ ys # {}
        /\ den * Cardinality(xs \cap ys) > num * Cardinality(xs \cup ys)

\* The elements of s at the positions in K, in order.
Restrict(s, K) ==
    LET kept == SelectSeq([i \in 1..Len(s) |-> i], LAMBDA i : i \in K)
    IN  [j \in 1..Len(kept) |-> s[kept[j]]]

\* C11: the output of weighted and similarity fusion is the sorted candidate
\* list restricted to a set of accepted positions that contains the first
\* one and leaves out exactly the candidates whose similarity with an
\* earlier accepted one is strictly above the threshold; so no two fragments
\* of the output are that similar.
C11_DeduplicatedOutput ==
    (Returned /\ fuse_query.fusion_method \in {"weighted", "similarity"}) =>
        LET cands == SortedCandidates
            n == Len(cands)
        IN  /\ \E K \in SUBSET (1..n) :
                  /\ fuse_out = Restrict(cands, K)
                  /\ n >= 1 => 1 \in K
                  /\ \A i \in 2..n :
                        i \notin K <=>
                            \E j \in K : j < i /\ JaccardAbove(cands[i], cands[j],
                                                       ThresholdNum, ThresholdDen)
            /\ \A i, j \in 1..Len(fuse_out) :
                  i # j => ~JaccardAbove(fuse_out[i], fuse_out[j],
                                         ThresholdNum, ThresholdDen)

\* Three candidates: one dropped as a duplicate, and two kept although their
\* similarity is exactly the threshold.
C11_Witness ==
    /\ Returned
    /\ fuse_query.fusion_method \in {"weighted", "similarity"}
    /\ Len(SortedCandidates) = 3
    /\ Len(fuse_out) = 2
    /\ LET xs == Words(fuse_out[1].content)
           ys == Words(fuse_out[2].content)
       IN  /\ xs # ys
           /\ ThresholdDen * Cardinality(xs \cap ys)
                = ThresholdNum * Cardinality(xs \cup ys)

\* The inputs of the call in the order A then B.
FuseInputs == fuse_a \o fuse_b

\* Position p of keys in the stable descending order: after every larger
\* key and after the equal keys that precede it.
StableRank(keys, p) ==
    1 + Cardinality({q \in 1..Len(keys) :
                        keys[q] > keys[p] \/ (keys[q] = keys[p] /\ q < p)})

\* items in stable descending order of keys.
StablyDescending(items, keys) ==
    [r \in 1..Len(items) |->
        items[CHOOSE p \in 1..Len(items) : StableRank(keys, p) = r]]

\* score * weight of the p-th input, in hundredths: the weight is that of the
\* list the fragment came from, a missing score counts as
\* DefaultScoreWeighted.
WeightedScoreAt(p) ==
    LET f == FuseInputs[p]
        weight == IF p <= Len(fuse_a) THEN fuse_query.llamaindex_weight
                  ELSE fuse_query.langchain_weight
    IN  (IF "score" \in DOMAIN f THEN f.score.v ELSE DefaultScoreWeighted) * weight

\* C12: weighted fusion gives every fragment the weighted_score
\* score * weight of its list, and its output follows the stable descending
\* order of weighted_score: non-increasing, fragments of equal
\* weighted_score in input order (A's before B's, list order within a list).
C12_WeightedOrdering ==
    (Returned /\ fuse_query.fusion_method = "weighted") =>
        LET n == Len(FuseInputs)
            keys == [p \in 1..n |-> WeightedScoreAt(p)]
            scored == [p \in 1..n |->
                          [k \in DOMAIN FuseInputs[p] \cup {"weighted_score"} |->
                              IF k = "weighted_score" THEN PyFloat(keys[p])
                              ELSE FuseInputs[p][k]]]
        IN  /\ \E K \in SUBSET (1..n) :
                  fuse_out = Restrict(StablyDescending(scored, keys), K)
            /\ \A i \in 1..Len(fuse_out) - 1 :
                  fuse_out[i].weighted_score.v >= fuse_out[i + 1].weighted_score.v

\* Three fragments in the output: the first weighs more than the other two,
\* which weigh the same, differ in content, and stand A's before B's.
C12_Witness ==
    /\ Returned
    /\ fuse_query.fusion_method = "weighted"
    /\ Len(fuse_out) = 3
    /\ fuse_out[1].weighted_score.v > fuse_out[2].weighted_score.v
    /\ fuse_out[2].weighted_score = fuse_out[3].weighted_score
    /\ fuse_out[2].source = "llamaindex"
    /\ fuse_out[3].source = "langchain"
    /\ fuse_out[2].content # fuse_out[3].content

\* The 1-based position of the p-th input in its own list.
RankAt(p) == IF p <= Len(fuse_a) THEN p ELSE p - Len(fuse_a)

\* content[:100] of the p-th input.
PrefixAt(p) == Prefix(FuseInputs[p].content)

\* The group of the p-th input as _rank_fusion forms it.
HashAt(p) == hash(hash_seed, PrefixAt(p))

\* The sum of 1 / (60 + rank) over the inputs at positions ps, in units of
\* 1 / RrfUnit.
RECURSIVE SumOfContributions(_)
SumOfContributions(ps) ==
    IF ps = {} THEN 0
    ELSE LET p == CHOOSE q \in ps : TRUE
         IN  RrfUnit \div (RrfK + RankAt(p)) + SumOfContributions(ps \ {p})

\* The rank fusion output lists one input fragment per group, the groups
\* being the classes of GroupAt, in non-increasing order of the groups'
\* summed contributions.
RankedByGroups(GroupAt(_)) ==
    LET P == 1..Len(FuseInputs)
        Members(p) == {q \in P : GroupAt(q) = GroupAt(p)}
    IN  \E pick \in [1..Len(fuse_out) -> P] :
            /\ \A i \in 1..Len(fuse_out) : fuse_out[i] = FuseInputs[pick[i]]
            /\ \A i, j \in 1..Len(fuse_out) :
                  i # j => GroupAt(pick[i]) # GroupAt(pick[j])
            /\ \A p \in P : \E i \in 1..Len(fuse_out) : GroupAt(pick[i]) = GroupAt(p)
            /\ \A i \in 1..Len(fuse_out) - 1 :
                  SumOfContributions(Members(pick[i]))
                      >= SumOfContributions(Members(pick[i + 1]))

C13_CollisionReached ==
    /\ Returned
    /\ fuse_query.fusion_method = "rank"
    /\ \E p, q \in 1..Len(FuseInputs) : PrefixAt(p) # PrefixAt(q) /\ HashAt(p) = HashAt(q)

\* The accumulated score of group h in score_dict, 0 if it has none.
RrfScoreOf(score_dict, h) ==
    IF \E i \in 1..Len(score_dict) : score_dict[i].h = h
    THEN score_dict[CHOOSE i \in 1..Len(score_dict) : score_dict[i].h = h].rrf_score
    ELSE 0

\* Both lists start with a fragment of the same group.
FirstInBoth ==
    /\ Returned
    /\ fuse_query.fusion_method = "rank"
    /\ fuse_a # <<>>
    /\ fuse_b # <<>>
    /\ HashAt(1) = HashAt(Len(fuse_a) + 1)

\* The fragments of source that could stand first in a list without
\* belonging to group h.
Outsiders(source, h) ==
    {z \in {Retrieved(f, source) : f \in Fragments} :
        "content" \in DOMAIN z /\ hash(hash_seed, Prefix(z.content)) # h}

\* The 1-based position of the first element of s equal to x, 0 if none.
IndexOf(s, x) ==
    IF \E i \in 1..Len(s) : s[i] = x
    THEN CHOOSE i \in 1..Len(s) : s[i] = x /\ \A j \in 1..(i - 1) : s[j] # x
    ELSE 0

\* C14: a fragment ranked first in both lists has a strictly higher
\* accumulated score than it has when, all else equal, it is ranked first in
\* one list only (the other first place going to a fragment of another
\* group); and in the output it stands before every fragment that was
\* listed once only.
C14_RrfMonotonicity ==
    FirstInBoth =>
        LET h == HashAt(1)
            both == RrfScoreOf(RrfScoreDict(fuse_a, fuse_b, hash_seed), h)
            once == {p \in 1..Len(FuseInputs) :
                        \A q \in 1..Len(FuseInputs) : HashAt(q) = HashAt(p) => q = p}
        IN  /\ \A z \in Outsiders("langchain", h) :
                  both > RrfScoreOf(RrfScoreDict(fuse_a, <<z>> \o Tail(fuse_b),
                                                 hash_seed), h)
            /\ \A z \in Outsiders("llamaindex", h) :
                  both > RrfScoreOf(RrfScoreDict(<<z>> \o Tail(fuse_a), fuse_b,
                                                 hash_seed), h)
            /\ IndexOf(fuse_out, fuse_a[1]) >= 1
            /\ \A p \in once :
                  /\ IndexOf(fuse_out, FuseInputs[p]) >= 1
                  /\ IndexOf(fuse_out, fuse_a[1]) < IndexOf(fuse_out, FuseInputs[p])

\* The same content leads both lists, a fragment listed once follows in the
\* output, and some fragment could have taken the first place of B.
C14_Witness ==
    /\ FirstInBoth
    /\ fuse_a[1].content = fuse_b[1].content
    /\ Len(fuse_b) = 2
    /\ HashAt(Len(fuse_a) + 2) # HashAt(1)
    /\ Outsiders("langchain", HashAt(1)) # {}
    /\ fuse_out = <<fuse_a[1], fuse_b[2]>>

\* out is cands without its duplicates: the first candidate, and every later
\* one that is not similar above the threshold to an accepted earlier one.
DeduplicatesTo(cands, out) ==
    \E K \in SUBSET (1..Len(cands)) :
        /\ out = Restrict(cands, K)
        /\ cands # <<>> => 1 \in K
        /\ \A i \in 2..Len(cands) :
              i \notin K <=>
                  \E j \in K : j < i /\ JaccardAbove(cands[i], cands[j],
                                             ThresholdNum, ThresholdDen)

\* The score similarity fusion sorts the p-th input by: its own, 0 if it has
\* none.
OwnScoreAt(p) ==
    IF "score" \in DOMAIN FuseInputs[p] THEN FuseInputs[p].score.v
    ELSE DefaultScoreSimilarity

\* C15: similarity fusion returns the deduplication of listA followed by
\* listB stably sorted in non-increasing order of the fragments' own scores;
\* the fragments are returned as they were given.
C15_SimilarityFusion ==
    (Returned /\ fuse_query.fusion_method = "similarity") =>
        LET n == Len(FuseInputs)
            sorted_inputs ==
                StablyDescending(FuseInputs, [p \in 1..n |-> OwnScoreAt(p)])
        IN  /\ DeduplicatesTo(sorted_inputs, fuse_out)
            /\ \A i \in 1..Len(fuse_out) - 1 :
                  get(fuse_out[i], "score", PyInt(DefaultScoreSimilarity)).v
                      >= get(fuse_out[i + 1], "score",
                             PyInt(DefaultScoreSimilarity)).v

\* B's best fragment leads although B's weight is the lower one, and of two
\* fragments with the same score A's stands before B's.
C15_Witness ==
    /\ Returned
    /\ fuse_query.fusion_method = "similarity"
    /\ Len(fuse_out) = 3
    /\ fuse_out[1].source = "langchain"
    /\ fuse_out[2].source = "llamaindex"
    /\ fuse_out[3].source = "langchain"
    /\ \A i \in 1..3 : "score" \in DOMAIN fuse_out[i]
    /\ fuse_out[1].score.v > fuse_out[2].score.v
    /\ fuse_out[2].score = fuse_out[3].score
    /\ fuse_out[2].score.v * 6 > fuse_out[1].score.v * 4

\* C16: with a fusion method other than weighted, rank and similarity the
\* output is the first top_k elements of listA followed by listB, in that
\* order and as given, min(top_k, |A| + |B|) of them.
C16_SimpleFusion ==
    (FuseDone /\ fuse_query.fusion_method \notin {"weighted", "rank", "similarity"}) =>
        LET k == fuse_query.top_k.v
            n == Len(fuse_a) + Len(fuse_b)
        IN  /\ fuse_status = "returned"
            /\ k > 0
            /\ Len(fuse_out) = IF k < n THEN k ELSE n
            /\ \A i \in 1..Len(fuse_out) :
                  fuse_out[i] = IF i <= Len(fuse_a) THEN fuse_a[i]
                                ELSE fuse_b[i - Len(fuse_a)]

\* Three fragments cut to two: A's and B's, the lower score first, and the
\* two so similar that deduplication would have dropped the second.
C16_Witness ==
    /\ FuseDone
    /\ fuse_query.fusion_method = "simple"
    /\ Len(fuse_a) = 1
    /\ Len(fuse_b) = 2
    /\ fuse_out = <<fuse_a[1], fuse_b[1]>>
    /\ \A i \in 1..2 : DOMAIN fuse_out[i] = {"content", "score", "source"}
    /\ JaccardAbove(fuse_out[1], fuse_out[2], ThresholdNum, ThresholdDen)
    /\ "score" \in DOMAIN fuse_b[2]
    /\ fuse_b[2].score.v > fuse_b[1].score.v

\* The output is not in descending order of score.
C16_WitnessUnsorted ==
    /\ FuseDone
    /\ fuse_query.fusion_method = "simple"
    /\ Len(fuse_out) = 2
    /\ \A i \in 1..2 : "score" \in DOMAIN fuse_out[i] /\ IsNumber(fuse_out[i].score)
    /\ fuse_out[1].score.v < fuse_out[2].score.v

\* The example call: listA = ["alpha beta", 0.9], listB = ["alpha beta
\* gamma", 0.8], weighted fusion with weights 0.6 and 0.4.  A HybridQuery has
\* no field for a deduplication threshold, so the call is the same whatever
\* threshold the caller has in mind.
ThresholdExample ==
    /\ FuseDone
    /\ fuse_query.fusion_method = "weighted"
    /\ fuse_query.llamaindex_weight = 6
    /\ fuse_query.langchain_weight = 4
    /\ fuse_a = <<Retrieved([content |-> <<"alpha", "beta">>,
                             score |-> PyFloat(9)], "llamaindex")>>
    /\ fuse_b = <<Retrieved([content |-> <<"alpha", "beta", "gamma">>,
                             score |-> PyFloat(8)], "langchain")>>

ContentsOf(s) ==
    {IF "content" \in DOMAIN s[i] THEN [given |-> TRUE, text |-> s[i].content]
     ELSE [given |-> FALSE, text |-> <<>>] : i \in 1..Len(s)}

\* The fragments of s that have words.
WithWords(s) ==
    SelectSeq(s, LAMBDA f : "content" \in DOMAIN f /\ Words(f.content) # {})

\* Weighted fusion with equal weights was called on (A, []) and on (A, A).
SelfFused ==
    /\ fuse_status = "returned"
    /\ fuse_self.called
    /\ fuse_b = <<>>
    /\ fuse_query.fusion_method = "weighted"
    /\ fuse_query.llamaindex_weight = fuse_query.langchain_weight

\* C18: weighted fusion of (A, A) with equal weights returns the same set
\* of distinct contents as weighted fusion of (A, []); when neither call
\* falls back to the simple merge, the fragments that have words are the
\* same in both outputs, each once and in the same order.
C18_DedupIdempotence ==
    SelfFused =>
        /\ ~fuse_self.raised
        /\ ContentsOf(fuse_self.value) = ContentsOf(fuse_out)
        /\ (/\ ~SelectedStrategy(fuse_a, <<>>, fuse_query, hash_seed).raised
            /\ ~SelectedStrategy(fuse_a, fuse_a, fuse_query, hash_seed).raised)
           => WithWords(fuse_self.value) = WithWords(fuse_out)

\* A holds two fragments of equal score that are no duplicates of each other
\* and one without words: the first two come out once, the third twice.
C18_Witness ==
    /\ SelfFused
    /\ Returned
    /\ ~SelectedStrategy(fuse_a, fuse_a, fuse_query, hash_seed).raised
    /\ Len(fuse_a) = 3
    /\ Len(fuse_out) = 3
    /\ Len(WithWords(fuse_out)) = 2
    /\ fuse_out[1].weighted_score = fuse_out[2].weighted_score
    /\ Len(fuse_self.value) = 4
    /\ WithWords(fuse_self.value) = WithWords(fuse_out)

C20_InputsUnchanged ==
    [][Fuse => /\ fuse_a' = fuse_a
               /\ fuse_b' = fuse_b
               /\ UNCHANGED <<cacheVars, keyVars, fuse_query, fuse_self, fuse_again>>
      ]_vars

\* A weighted fusion has returned copies that carry a weighted_score while no
\* fragment of the two lists has one.
C20_Witness ==
    /\ Returned
    /\ fuse_query.fusion_method = "weighted"
    /\ fuse_a # <<>>
    /\ fuse_b # <<>>
    /\ Len(fuse_out) >= 2
    /\ \A i \in 1..Len(fuse_out) : "weighted_score" \in DOMAIN fuse_out[i]
    /\ \A i \in 1..Len(fuse_a) : "weighted_score" \notin DOMAIN fuse_a[i]
    /\ \A i \in 1..Len(fuse_b) : "weighted_score" \notin DOMAIN fuse_b[i]

\* A weighted fusion stopped at a score it could not multiply and fell back.
C20_WitnessFallback ==
    /\ FuseDone
    /\ StrategyRaised
    /\ fuse_query.fusion_method = "weighted"
    /\ Len(fuse_a) >= 2
    /\ fuse_out # <<>>
    /\ \A i \in 1..Len(fuse_a) : "weighted_score" \notin DOMAIN fuse_a[i]

-----------------------------------------------------------------------------
\* The service under queries whose limit a caller of the batch endpoint
\* chose freely: the JSON value is passed on as it came.
QueryLimit0     == TeachingPracticeQuery(<<<<"limit", PyInt(0)>>>>)
QueryFloatLimit == TeachingPracticeQuery(<<<<"limit", PyFloat(10)>>>>)   \* 1.0
LimitQueries == {QueryLimit0, QueryHealth, QueryFloatLimit}

LimitNext ==
    \/ \E c \in Calls, q \in LimitQueries : get_teaching_practices_start(c, q)
    \/ \E c \in Calls, svc \in ServiceScenarios : get_teaching_practices_finish(c, svc)
    \/ \E c \in Calls : get_teaching_practices_except(c)
    \/ clear_cache
    \/ TestWrite
    \/ Tick

SpecLimit == Init /\ [][LimitNext]_vars

\* The limit of a query as a number of tenths, whatever its numeric type.
LimitTenths(q) == IF q.limit.t = "float" THEN q.limit.v ELSE 10 * q.limit.v

\* The lists of a response that the limit applies to.
Limited == {"teaching_strategies", "classroom_activities", "assessment_methods"}

\* C21: a call whose fetches find the content service unavailable (no
\* library id, or every request failed) or whose compute step raised
\* returns a response, and when the limit is at least 1 all four lists of
\* the response are non-empty.
C21_DegradedService ==
    [][\A c \in Calls :
          ( \/ get_teaching_practices_finish(c, ServiceDown)
            \/ get_teaching_practices_except(c) )
          => /\ outcome'[c] \in {"computed", "fallback"}
             /\ result'[c] # NoResult
             /\ result'[c].query_info = asdict(call_query[c])
             /\ LimitTenths(call_query[c]) >= 10
                   => \A cat \in Categories : result'[c][cat] # <<>>
      ]_vars

\* A call with limit 1 was answered from the built-in items alone.
C21_Witness ==
    \E c \in Calls :
        /\ pc[c] = "done"
        /\ outcome[c] = "computed"
        /\ call_query[c] = QueryHealth
        /\ \A cat \in Categories :
              /\ result[c][cat] # <<>>
              /\ result[c][cat][1] = DefaultItems(cat)[1]

\* With limit 0 the same call returns three empty lists.
C21_WitnessLimit0 ==
    \E c \in Calls :
        /\ pc[c] = "done"
        /\ outcome[c] = "computed"
        /\ call_query[c] = QueryLimit0
        /\ \A cat \in Limited : result[c][cat] = <<>>
        /\ result[c].classroom_management = DefaultItems("classroom_management")

\* C22: whatever path a call with a limit of at least 0 took (computed,
\* served from the cache, or answered by the except branch), each of the
\* three limited lists of its response has at most limit items.
C22_ResultSizeBound ==
    \A c \in Calls :
        ( /\ pc[c] = "done"
          /\ IsNumber(call_query[c].limit)
          /\ LimitTenths(call_query[c]) >= 0 )
        => \A cat \in Limited :
              10 * Len(result[c][cat]) <= LimitTenths(call_query[c])

-----------------------------------------------------------------------------
\* Further properties of the fusion strategies.

\* C23: weighted and similarity fusion return every candidate that survives
\* deduplication, whatever top_k is, so that the output can be longer than
\* top_k; the simple merge, chosen or fallen back to, returns at most top_k
\* fragments.
C23_NoTruncation ==
    /\ (Returned /\ fuse_query.fusion_method \in {"weighted", "similarity"}) =>
          /\ DeduplicatesTo(SortedCandidates, fuse_out)
          /\ \A k \in 1..DefaultTopK :
                _fuse_results(fuse_a, fuse_b,
                              [fuse_query EXCEPT !.top_k = PyInt(k)],
                              hash_seed).value = fuse_out
    /\ (FuseDone /\ (StrategyRaised
                     \/ fuse_query.fusion_method
                          \notin {"weighted", "rank", "similarity"})) =>
          Len(fuse_out) <= fuse_query.top_k.v

\* A weighted fusion with top_k = 2 returned three fragments.
C23_Witness ==
    /\ Returned
    /\ fuse_query.fusion_method = "weighted"
    /\ fuse_query.top_k.v = MaxTopK
    /\ Len(fuse_out) > fuse_query.top_k.v
    /\ fuse_a # <<>>
    /\ fuse_b # <<>>

\* A similarity fusion with top_k = 2 returned three fragments.
C23_WitnessSimilarity ==
    /\ Returned
    /\ fuse_query.fusion_method = "similarity"
    /\ fuse_query.top_k.v = MaxTopK
    /\ Len(fuse_out) > fuse_query.top_k.v

\* A fallback cut three fragments to top_k = 2.
C23_WitnessFallback ==
    /\ FuseDone
    /\ StrategyRaised
    /\ Len(fuse_a) + Len(fuse_b) > fuse_query.top_k.v
    /\ Len(fuse_out) = fuse_query.top_k.v

-----------------------------------------------------------------------------
\* Further properties of the cache.

\* The keys whose entry a step can have changed: those stored before or
\* after it by get_teaching_practices (the test's own key is left aside).
EntryKeys == (DOMAIN cache \cup DOMAIN cache') \ {TestKey}

\* The state of the entry under key k in store c at time t.
EntryStateOf(c, k, t, ttl) ==
    IF k \notin DOMAIN c THEN "absent"
    ELSE IF HasTimestamp(c[k]) /\ t - WrittenAt(c[k]) < ttl THEN "valid"
    ELSE "expired"

\* This step is the write of a call that computed its response under key k.
WrittenBy(k) ==
    \E c \in Calls :
        /\ pc[c] = "fetching"
        /\ pc'[c] = "done"
        /\ outcome'[c] = "computed"
        /\ call_key[c] = k
        /\ cache'[k] = [data |-> ToDict(result'[c]), timestamp |-> isoformat(now)]

\* C24 as claimed: the state of an entry changes only from absent to valid,
\* from valid to expired and from expired to absent.
C24_ThreeTransitions ==
    [][\A k \in EntryKeys :
          LET before == EntryStateOf(cache, k, now, cache_ttl)
              after  == EntryStateOf(cache', k, now', cache_ttl')
          IN  before # after =>
                  <<before, after>> \in {<<"absent", "valid">>,
                                         <<"valid", "expired">>,
                                         <<"expired", "absent">>}
      ]_vars

\* C24 as amended: the state of an entry changes only by a write (from
\* absent or expired to valid; from absent to expired when ttl is 0), by
\* the passage of time (from valid to expired) and by clear_cache (from
\* valid or expired to absent).
C24_EntryLifecycle ==
    [][\A k \in EntryKeys :
          LET before == EntryStateOf(cache, k, now, cache_ttl)
              after  == EntryStateOf(cache', k, now', cache_ttl')
          IN  before # after =>
                  \/ /\ before \in {"absent", "expired"}
                     /\ after = "valid"
                     /\ WrittenBy(k)
                  \/ /\ before = "absent"
                     /\ after = "expired"
                     /\ WrittenBy(k)
                     /\ cache_ttl = 0
                  \/ /\ before = "valid"
                     /\ after = "expired"
                     /\ now' > now
                     /\ cache' = cache
                  \/ /\ before \in {"valid", "expired"}
                     /\ after = "absent"
                     /\ cache' = EmptyCache
                     /\ pc' = pc
      ]_vars

\* A call that found its entry expired has written a valid one over it.
C24_Witness ==
    \E c \in Calls :
        /\ StartedOnExpired(c)
        /\ cache_ttl > 0
        /\ outcome[c] = "computed"
        /\ EntryStateOf(cache, call_key[c], now, cache_ttl) = "valid"

\* The store was cleared while an entry written into it was still valid.
C24_WitnessCleared ==
    /\ cache = EmptyCache
    /\ \E c \in Calls :
          /\ outcome[c] = "computed"
          /\ now - result[c].timestamp < cache_ttl

\* The output of rank fusion holds, once each, the first input (A's in
\* order, then B's) of every class of GroupAt, and nothing else.
OnePerGroup(GroupAt(_)) ==
    LET P == 1..Len(FuseInputs)
        Firsts == {p \in P : \A q \in 1..(p - 1) : GroupAt(q) # GroupAt(p)}
    IN  /\ Len(fuse_out) = Cardinality(Firsts)
        /\ \A p \in Firsts :
              Cardinality({i \in 1..Len(fuse_out) : fuse_out[i] = FuseInputs[p]}) = 1
        /\ \A i \in 1..Len(fuse_out) : \E p \in Firsts : fuse_out[i] = FuseInputs[p]

C25_MergedByCollision ==
    /\ Returned
    /\ fuse_query.fusion_method = "rank"
    /\ Cardinality({PrefixAt(p) : p \in 1..Len(FuseInputs)}) = 2
    /\ Len(fuse_out) = 1

-----------------------------------------------------------------------------
\* _deduplicate_results on its own, called with a similarity_threshold of
\* the caller's choice.
Thresholds ==
    {[num |-> n, den |-> ThresholdDen] : n \in {0, 5, ThresholdNum, ThresholdDen}}

DedupInit ==
    /\ CacheInit
    /\ cache_ttl = 0
    /\ hash_seed = 0
    /\ KeyIdle
    /\ FuseIdle
    /\ dedup_results \in ListsOver(Fragments, MaxFragments)
    /\ dedup_threshold \in Thresholds
    /\ dedup_out = NoCall

Deduplicate ==
    /\ ~dedup_out.called
    /\ dedup_out' = Called(_deduplicate_results(dedup_results, dedup_threshold))
    /\ UNCHANGED <<cacheVars, keyVars, fuseVars, dedup_results, dedup_threshold>>

DedupNext == Deduplicate

SpecDedup == DedupInit /\ [][DedupNext]_vars

\* The fragment has a content, and the content has no words.
Wordless(f) == "content" \in DOMAIN f /\ Words(f.content) = {}

\* C26: whatever the threshold between 0 and 1, deduplication keeps every
\* fragment whose content has no words, and what it keeps of the other
\* fragments is what it keeps of them when the wordless ones are taken out
\* of the input: a wordless fragment causes no drop.
C26_EmptyContentKept ==
    (dedup_out.called /\ ~dedup_out.raised) =>
        /\ \E K \in SUBSET (1..Len(dedup_results)) :
              /\ dedup_out.value = Restrict(dedup_results, K)
              /\ \A i \in 1..Len(dedup_results) : Wordless(dedup_results[i]) => i \in K
        /\ WithWords(dedup_out.value)
             = _deduplicate_results(WithWords(dedup_results), dedup_threshold).value

\* At threshold 0 two wordless fragments were both kept, and so was a
\* fragment with words that came after them.
C26_Witness ==
    /\ dedup_out.called
    /\ ~dedup_out.raised
    /\ dedup_threshold.num = 0
    /\ Len(dedup_results) = 3
    /\ Wordless(dedup_results[1])
    /\ Wordless(dedup_results[2])
    /\ ~Wordless(dedup_results[3])
    /\ dedup_out.value = dedup_results

\* At threshold 0.5 a wordless fragment stood between a fragment and its
\* duplicate: it was kept, the duplicate was dropped.
C26_WitnessBetween ==
    /\ dedup_out.called
    /\ ~dedup_out.raised
    /\ dedup_threshold.num = 5
    /\ Len(dedup_results) = 3
    /\ Wordless(dedup_results[2])
    /\ dedup_out.value = <<dedup_results[1], dedup_results[2]>>

-----------------------------------------------------------------------------
\* C27: a fragment that came without a score counts as having score 0 in
\* every strategy: its copy in the output of weighted fusion has
\* weighted_score 0, and similarity fusion sorts it as 0.
C27_MissingScoreIsZero ==
    /\ (Returned /\ fuse_query.fusion_method = "weighted") =>
          \A i \in 1..Len(fuse_out) :
              "score" \notin DOMAIN fuse_out[i] => fuse_out[i].weighted_score.v = 0
    /\ (Returned /\ fuse_query.fusion_method = "similarity") =>
          \A i, j \in 1..Len(fuse_out) :
              (i < j /\ "score" \notin DOMAIN fuse_out[i]
                     /\ "score" \in DOMAIN fuse_out[j])
                  => fuse_out[j].score.v <= 0

-----------------------------------------------------------------------------
\* The service with callers that also ask for the statistics; the queries
\* are the cached test's and the one whose compute step raises.
StatsQueries == {QueryMath2, QueryStrLimit}

StatsNext ==
    \/ \E c \in Calls, q \in StatsQueries : get_teaching_practices_start(c, q)
    \/ \E c \in Calls, svc \in ServiceScenarios : get_teaching_practices_finish(c, svc)
    \/ \E c \in Calls : get_teaching_practices_except(c)
    \/ clear_cache
    \/ TestWrite
    \/ Tick
    \/ get_cache_stats_call

SpecStats == Init /\ [][StatsNext]_vars

\* C28: a step in which a call is served from the cache, and a step in
\* which the statistics are returned, leave the store as it was; and no
\* step changes a stored entry other than the write of a call that computed
\* its response, so that no hit moves an entry's timestamp.
C28_HitAndStatsReadOnly ==
    [][/\ \A c \in Calls :
             (pc[c] = "idle" /\ pc'[c] = "done") =>
                 /\ outcome'[c] = "hit"
                 /\ cache' = cache
       /\ stats_out' # stats_out =>
             /\ stats_out' = get_cache_stats(cache, now, cache_ttl)
             /\ cache' = cache
       /\ \A k \in DOMAIN cache \cap DOMAIN cache' :
             cache'[k] # cache[k] => WrittenBy(k)
      ]_vars

\* An entry written at time 0 with ttl 2 served a hit at time 1 and is
\* expired at time 2, as the statistics asked for at time 2 say.
C28_Witness ==
    \E c1, c2 \in Calls :
        /\ FollowsWithinTtl(c1, c2)
        /\ outcome[c2] = "hit"
        /\ began[c2] > result[c1].timestamp
        /\ now - result[c1].timestamp = cache_ttl
        /\ call_key[c1] \in DOMAIN cache
        /\ cache[call_key[c1]].timestamp = isoformat(result[c1].timestamp)
        /\ EntryStateOf(cache, call_key[c1], now, cache_ttl) = "expired"
        /\ stats_out = get_cache_stats(cache, now, cache_ttl)
        /\ stats_out.expired_entries >= 1

-----------------------------------------------------------------------------
\* The service with the history of clear_cache kept; the queries are the
\* cached test's and the health check's.
ClearQueries == {QueryMath2, QueryHealth}

ClearNext ==
    \/ \E c \in Calls, q \in ClearQueries : get_teaching_practices_start(c, q)
    \/ \E c \in Calls, svc \in ServiceScenarios : get_teaching_practices_finish(c, svc)
    \/ clear_cache_noted
    \/ TestWrite
    \/ Tick

SpecClear == Init /\ [][ClearNext]_vars

\* C29 as claimed: after clear_cache an entry is entered only by a call that
\* started after it; a call that was suspended in its fetches when
\* clear_cache ran enters nothing when it completes.
C29_NoReinsertion ==
    [][\A k \in (DOMAIN cache' \ DOMAIN cache) \ {TestKey} :
          \E c \in Calls \ cleared :
              /\ pc[c] = "fetching"
              /\ pc'[c] = "done"
              /\ call_key[c] = k
      ]_vars

\* C29 as amended: after clear_cache the store gains an entry only by the
\* write of a call that computed its response, and a call that was
\* suspended in its fetches when clear_cache ran does write when its
\* computation succeeds: its entry, with the time of completion, is in the
\* store afterwards.
C29_InFlightReinserts ==
    [][/\ \A k \in (DOMAIN cache' \ DOMAIN cache) \ {TestKey} : WrittenBy(k)
       /\ \A c \in cleared :
             (pc[c] = "fetching" /\ pc'[c] = "done" /\ outcome'[c] = "computed") =>
                 /\ call_key[c] \in DOMAIN cache'
                 /\ cache'[call_key[c]] = [data |-> ToDict(result'[c]),
                                           timestamp |-> isoformat(now)]
                 /\ DOMAIN cache' = DOMAIN cache \cup {call_key[c]}
      ]_vars

\* A call that was in flight when the store was cleared has completed, and
\* its entry is the only one in the store.
C29_Witness ==
    \E c \in cleared :
        /\ outcome[c] = "computed"
        /\ DOMAIN cache = {call_key[c]}
        /\ cache[call_key[c]] = [data |-> ToDict(result[c]),
                                 timestamp |-> isoformat(result[c].timestamp)]
        /\ \A d \in Calls \ {c} : pc[d] # "fetching"

-----------------------------------------------------------------------------
\* The response carries built-in default items in some category.
FromDefaults(r) ==
    \E cat \in Categories : r[cat] # <<>> /\ r[cat][1] = DefaultItems(cat)[1]

\* C30 as claimed: a computation whose fetches got nothing from the content
\* service and substituted the defaults leaves the store as it was.
C30_DefaultsNotCached ==
    [][\A c \in Calls :
          get_teaching_practices_finish(c, ServiceDown) => cache' = cache
      ]_vars

\* C30 as amended: a computation whose fetches substituted the defaults
\* stores its response like any other, and a call with the same query that
\* starts on that entry within ttl is served from it without invoking the
\* compute step.
C30_DefaultsCached ==
    [][/\ \A c \in Calls :
             get_teaching_practices_finish(c, ServiceDown) =>
                 /\ FromDefaults(result'[c])
                 /\ call_key[c] \in DOMAIN cache'
                 /\ cache'[call_key[c]] = [data |-> ToDict(result'[c]),
                                           timestamp |-> isoformat(now)]
       /\ \A c1, c2 \in Calls :
             ( /\ pc[c2] = "idle"
               /\ FollowsWithinTtl(c1, c2)'
               /\ FromDefaults(result[c1]) )
             => /\ outcome'[c2] = "hit"
                /\ fetches'[c2] = 0
                /\ result'[c2] = result[c1]
      ]_vars

\* A response built from the defaults served a later call from the cache.
C30_Witness ==
    \E c1, c2 \in Calls :
        /\ FollowsWithinTtl(c1, c2)
        /\ \A cat \in Categories : result[c1][cat][1] = DefaultItems(cat)[1]
        /\ began[c2] > result[c1].timestamp
        /\ outcome[c2] = "hit"
        /\ fetches[c2] = 0

=============================================================================
